---- MODULE Spec2Model ----
(***************************************************************************)
(* A model of main.py: the source adapters (search_* functions), the       *)
(* per-source dispatch loop of main, and the Streamlit session state that  *)
(* drives reruns.                                                          *)
(*                                                                         *)
(* Text is modelled as a sequence of non-empty chunks: "" is << >>, a      *)
(* literal is a one-chunk sequence, concatenation is \o.  The chunk " "    *)
(* stands for a run of whitespace, so strip() and re.sub(r'\s+', ' ', s)   *)
(* do real work on it.                                                     *)
(***************************************************************************)
EXTENDS Integers, Sequences, FiniteSets, TLC

(***************************************************************************)
(* Bounds of the model.                                                    *)
(***************************************************************************)
\* Result items in one response of a remote source.
MaxItems == 2
\* Result items in one response of a remote source during a run of main.
MaxRunItems == 2
\* Number of sources selected in the multiselect.
MaxSel == 2

(***************************************************************************)
(* Text helpers.                                                           *)
(***************************************************************************)
WS == " "

Min(a, b) == IF a <= b THEN a ELSE b

\* s[:n] of a list
Take(s, n) == SubSeq(s, 1, Min(n, Len(s)))

RECURSIVE lstrip(_)
lstrip(s) == IF s # << >> /\ Head(s) = WS THEN lstrip(Tail(s)) ELSE s

RECURSIVE rstrip(_)
rstrip(s) ==
    IF s # << >> /\ s[Len(s)] = WS THEN rstrip(SubSeq(s, 1, Len(s) - 1)) ELSE s

\* str.strip()
strip(s) == rstrip(lstrip(s))

\* re.sub(r'\s+', ' ', s): every run of whitespace becomes one blank
RECURSIVE collapse_ws(_)
collapse_ws(s) ==
    IF Len(s) < 2 THEN s
    ELSE IF s[1] = WS /\ s[2] = WS THEN collapse_ws(Tail(s))
    ELSE <<s[1]>> \o collapse_ws(Tail(s))

\* a join that keeps the first part only
join_first_only(sep, parts) == IF parts = << >> THEN << >> ELSE parts[1]

\* sep.join(parts)
RECURSIVE join(_, _)
join(sep, parts) ==
    IF parts = << >> THEN << >>
    ELSE IF Len(parts) = 1 THEN parts[1]
    ELSE parts[1] \o sep \o join(sep, Tail(parts))

\* href.startswith('/')
startswith_slash(s) == s # << >> /\ s[1] = "/"

(***************************************************************************)
(* What a remote source can send back.                                     *)
(*                                                                         *)
(* An element a selector looks for is either missing (select_one gives     *)
(* None) or found with some text.                                          *)
(***************************************************************************)
NoElement == [found |-> FALSE]
Element(text) == [found |-> TRUE, text |-> text]
Anchor(text, href) == [found |-> TRUE, text |-> text, href |-> href]

\* One result block of an HTML result page, seen through the selectors the
\* scraping adapters apply to it.
EntryFull ==
    [title_element   |-> Anchor(<<"T1">>, <<"/", "p1">>),
     author_elements |-> << <<"Ann">>, <<WS, "Bob">> >>,
     author_element  |-> Element(<<"Ann; Bob">>),
     abstract_element |-> Element(<<"A1", WS>>),
     date_element    |-> Element(<<"2020">>),
     stat_element    |-> Element(<<"7">>)]

\* a block with none of the expected elements
EntryBare ==
    [title_element   |-> NoElement,
     author_elements |-> << >>,
     author_element  |-> NoElement,
     abstract_element |-> NoElement,
     date_element    |-> NoElement,
     stat_element    |-> NoElement]

\* a block whose elements are all there but hold only whitespace
EntryBlank ==
    [title_element   |-> Anchor(<<WS>>, << >>),
     author_elements |-> << <<WS>> >>,
     author_element  |-> Element(<<WS>>),
     abstract_element |-> Element(<<WS>>),
     date_element    |-> Element(<<WS>>),
     stat_element    |-> Element(<<WS>>)]

Entries == {EntryFull, EntryBare, EntryBlank}

\* all lists of at most n members of S
RECURSIVE ListsUpTo(_, _)
ListsUpTo(S, n) ==
    IF n = 0 THEN {<< >>}
    ELSE LET shorter == ListsUpTo(S, n - 1)
         IN  shorter \cup {Append(l, x) : l \in {m \in shorter : Len(m) = n - 1}, x \in S}

EntryLists == ListsUpTo(Entries, MaxItems)

\* One entry of the arXiv Atom feed.
FeedFull ==
    [title     |-> Element(<<"T1", WS, WS, "x">>),
     authors   |-> <<Element(<<"Ann">>), NoElement, Element(<<"Bob">>)>>,
     summary   |-> Element(<<WS, "A1">>),
     id        |-> Element(<<"http://arxiv.org/abs/1">>),
     pdf_href  |-> <<"http://arxiv.org/pdf/1">>,
     published |-> Element(<<"2020-01-01", "T00:00:00Z">>)]

FeedBare ==
    [title     |-> NoElement,
     authors   |-> << >>,
     summary   |-> NoElement,
     id        |-> NoElement,
     pdf_href  |-> << >>,
     published |-> NoElement]

FeedBlank ==
    [title     |-> Element(<<WS>>),
     authors   |-> <<NoElement>>,
     summary   |-> Element(<< >>),
     id        |-> Element(<<"http://arxiv.org/abs/2">>),
     pdf_href  |-> << >>,
     published |-> Element(<< >>)]

FeedEntries == {FeedFull, FeedBare, FeedBlank}

FeedLists == ListsUpTo(FeedEntries, MaxItems)

\* A request either raises a requests.exceptions.RequestException (timeout,
\* connection failure) or yields a response with a status, a final URL and a
\* body.  A body without the expected structure parses to no entries; the
\* body of an error response may hold a result block all the same.
NetError == [kind |-> "neterr"]
HttpResponse(status, entries) ==
    [kind |-> "http", status |-> status, unsupported |-> FALSE, entries |-> entries]
\* a response whose final URL is the site's unsupported_browser page
UnsupportedBrowser(status) ==
    [kind |-> "http", status |-> status, unsupported |-> TRUE, entries |-> << >>]

UnsupportedResponses == {UnsupportedBrowser(200), UnsupportedBrowser(403)}

PageResponses(lists) ==
    {NetError, HttpResponse(403, << >>)}
        \cup {HttpResponse(500, l) : l \in {m \in lists : Len(m) <= 1}}
        \cup {HttpResponse(200, l) : l \in lists}

\* response.raise_for_status() left out
raises_for_status_never(r) == FALSE

\* response.raise_for_status() raises HTTPError, a RequestException
raises_for_status(r) == r.status >= 400

(***************************************************************************)
(* What an adapter hands back: the list it returns, or an exception that   *)
(* leaves the function.  requests is the log of the requests it issued.    *)
(***************************************************************************)
Returned(list, log) ==
    [raised |-> FALSE, error |-> "", papers |-> list, requests |-> log]
Raised(exception, log) ==
    [raised |-> TRUE, error |-> exception, papers |-> << >>, requests |-> log]

\* one logged request: the User-Agent sent, the start offset asked for (0 when
\* the request has none), and what came back
Request(user_agent, start_index, reply) ==
    [agent |-> user_agent, start |-> start_index, response |-> reply]

DefaultAgent == "python-requests"

\* a record built without its link
Paper_without_link(t, a, b, c, l, s) ==
    [title |-> t, authors |-> a, abstract |-> b, citations |-> c, source |-> s]

Paper(t, a, b, c, l, s) ==
    [title |-> t, authors |-> a, abstract |-> b, citations |-> c, link |-> l,
     source |-> s]

(***************************************************************************)
(* search_arxiv                                                            *)
(***************************************************************************)
\* published.text[:10]: the date is the first, 10-character, chunk of a timestamp
first10(s) == Take(s, 1)

arxiv_paper(entry) ==
    LET title == IF entry.title.found THEN entry.title.text
                 ELSE <<"No title available">>
        found == SelectSeq(entry.authors, LAMBDA a : a.found)
        author_names == [i \in 1..Len(found) |-> found[i].text]
        authors_text == IF author_names # << >> THEN join(<<", ">>, author_names)
                        ELSE <<"No authors available">>
        abstract == IF entry.summary.found THEN entry.summary.text
                    ELSE <<"No abstract available">>
        link == IF entry.id.found THEN entry.id.text ELSE << >>
        pdf_link == entry.pdf_href
        published == IF entry.published.found THEN first10(entry.published.text)
                     ELSE <<"Date unknown">>
    IN  Paper(strip(collapse_ws(title)), authors_text, strip(collapse_ws(abstract)),
              <<"Published: ">> \o published,
              IF pdf_link # << >> THEN pdf_link ELSE link,
              <<"arXiv">>)

search_arxiv(max_results, response) ==
    LET log == <<Request(DefaultAgent, 0, response)>>
    IN  IF response.kind = "neterr" \/ raises_for_status(response)
        THEN Returned(<< >>, log)
        ELSE LET entries == response.entries
                 papers == [i \in 1..Len(entries) |-> arxiv_paper(entries[i])]
             IN  Returned(Take(papers, max_results), log)

(***************************************************************************)
(* search_semantic_scholar: the later of the two definitions of that name, *)
(* the one the module binds.                                               *)
(***************************************************************************)
Chrome91 == "Chrome/91 Windows"

semantic_scholar_paper(entry) ==
    LET title_element == entry.title_element
        author_elements == entry.author_elements
        abstract_element == entry.abstract_element
        citation_element == entry.stat_element
    IN  Paper(IF title_element.found THEN strip(title_element.text)
              ELSE <<"No title available">>,
              IF author_elements # << >> THEN join(<<", ">>, author_elements)
              ELSE <<"No authors available">>,
              IF abstract_element.found THEN strip(abstract_element.text)
              ELSE <<"No abstract available">>,
              IF citation_element.found THEN <<"Cited by ">> \o citation_element.text
              ELSE <<"Citations not available">>,
              IF title_element.found
              THEN <<"https://www.semanticscholar.org">> \o title_element.href
              ELSE << >>,
              <<"Semantic Scholar">>)

search_semantic_scholar(max_results, response) ==
    LET log == <<Request(Chrome91, 0, response)>>
    IN  IF response.kind = "neterr" \/ raises_for_status(response)
        THEN Returned(<< >>, log)
        ELSE LET paper_entries == Take(response.entries, max_results)
                 papers == [i \in 1..Len(paper_entries) |->
                               semantic_scholar_paper(paper_entries[i])]
             IN  Returned(Take(papers, max_results), log)

(***************************************************************************)
(* search_core, search_springer                                            *)
(***************************************************************************)
\* base + href if href.startswith('/') else href
absolute_link(base, title_element) ==
    IF startswith_slash(title_element.href) THEN <<base>> \o title_element.href
    ELSE title_element.href

core_paper(entry) ==
    LET title_element == entry.title_element
        author_element == entry.author_element
        abstract_element == entry.abstract_element
        pub_element == entry.stat_element
    IN  Paper(IF title_element.found THEN strip(title_element.text)
              ELSE <<"No title available">>,
              IF author_element.found THEN strip(author_element.text)
              ELSE <<"No authors available">>,
              IF abstract_element.found THEN strip(abstract_element.text)
              ELSE <<"No abstract available">>,
              IF pub_element.found THEN strip(pub_element.text)
              ELSE <<"Publication info not available">>,
              IF title_element.found
              THEN absolute_link("https://core.ac.uk", title_element)
              ELSE << >>,
              <<"CORE">>)

search_core(max_results, response) ==
    LET log == <<Request(Chrome91, 0, response)>>
    IN  IF response.kind = "neterr" \/ raises_for_status(response)
        THEN Returned(<< >>, log)
        ELSE LET paper_entries == Take(response.entries, max_results)
                 papers == [i \in 1..Len(paper_entries) |-> core_paper(paper_entries[i])]
             IN  Returned(Take(papers, max_results), log)

strip_all(texts) == [i \in 1..Len(texts) |-> strip(texts[i])]

springer_paper(entry) ==
    LET title_element == entry.title_element
        author_elements == entry.author_elements
        date_element == entry.date_element
        type_element == entry.stat_element
        date_text == IF date_element.found THEN strip(date_element.text)
                     ELSE <<"Date not available">>
        content_type == IF type_element.found THEN strip(type_element.text)
                        ELSE <<"Content type not specified">>
    IN  Paper(IF title_element.found THEN strip(title_element.text)
              ELSE <<"No title available">>,
              IF author_elements # << >> THEN join(<<", ">>, strip_all(author_elements))
              ELSE <<"No authors available">>,
              <<"Abstract not available on search page. Click the link to view full details.">>,
              content_type \o <<" | ">> \o date_text,
              IF title_element.found
              THEN absolute_link("https://link.springer.com", title_element)
              ELSE << >>,
              <<"SpringerLink">>)

search_springer(max_results, response) ==
    LET log == <<Request(Chrome91, 0, response)>>
    IN  IF response.kind = "neterr" \/ raises_for_status(response)
        THEN Returned(<< >>, log)
        ELSE LET paper_entries == Take(response.entries, max_results)
                 papers == [i \in 1..Len(paper_entries) |->
                               springer_paper(paper_entries[i])]
             IN  Returned(Take(papers, max_results), log)

(***************************************************************************)
(* search_research_gate                                                    *)
(***************************************************************************)
Chrome114 == "Chrome/114 Windows"
Safari16 == "Safari/16 Mac"

\* a pool that starts with the User-Agent the first request already sent
user_agents_stale == <<Chrome114, Chrome114, "Edge/113 Windows">>

user_agents == <<Safari16, "Chrome/113 Linux", "Edge/113 Windows">>

max_retries == 3

research_gate_paper(entry) ==
    LET title_element == entry.title_element
        author_elements == entry.author_elements
        pub_date_element == entry.date_element
        citation_element == entry.stat_element
        pub_date == IF pub_date_element.found THEN strip(pub_date_element.text)
                    ELSE << >>
        citation_text == IF citation_element.found THEN strip(citation_element.text)
                         ELSE <<"Metrics not available">>
        pub_info ==
            (IF pub_date # << >> THEN <<pub_date>> ELSE << >>)
            \o (IF citation_text # << >> /\ citation_text # <<"Metrics not available">>
                THEN <<citation_text>> ELSE << >>)
    IN  Paper(IF title_element.found THEN strip(title_element.text)
              ELSE <<"No title available">>,
              IF author_elements # << >> THEN join(<<", ">>, strip_all(author_elements))
              ELSE <<"No authors available">>,
              <<"Abstract not available in search results. Click the link to view full details.">>,
              IF pub_info # << >> THEN join(<<" | ">>, pub_info)
              ELSE <<"Publication info not available">>,
              IF title_element.found /\ startswith_slash(title_element.href)
              THEN <<"https://www.researchgate.net">> \o title_element.href
              ELSE IF title_element.found THEN title_element.href ELSE << >>,
              <<"ResearchGate">>)

\* the body of `for retry in range(max_retries)` and what follows the loop;
\* script[k] is what the remote answers to the k-th request of the call
RECURSIVE research_gate_loop(_, _, _, _, _, _)
research_gate_loop(retry, agent, papers, log, max_results, script) ==
    IF retry >= max_retries THEN Returned(papers, log)
    ELSE LET response == script[retry + 1]
             sent == Append(log, Request(agent, 0, response))
         IN  IF response.kind = "neterr" THEN Returned(<< >>, sent)
             ELSE IF response.status = 403
             THEN research_gate_loop(retry + 1,
                                     user_agents[(retry % Len(user_agents)) + 1],
                                     papers, sent, max_results, script)
             ELSE IF raises_for_status(response) THEN Returned(<< >>, sent)
             ELSE LET paper_entries == Take(response.entries, max_results)
                      found == [i \in 1..Len(paper_entries) |->
                                   research_gate_paper(paper_entries[i])]
                  IN  research_gate_loop(retry + 1, agent, papers \o found, sent,
                                         max_results, script)

search_research_gate(max_results, script) ==
    research_gate_loop(0, Chrome114, << >>, << >>, max_results, script)

(***************************************************************************)
(* search_science_direct                                                   *)
(***************************************************************************)
science_direct_paper(entry) ==
    LET title_element == entry.title_element
        author_elements == entry.author_elements
        pub_element == entry.stat_element
        pub_date_element == entry.date_element
        abstract_element == entry.abstract_element
        pub_info ==
            (IF pub_element.found THEN <<strip(pub_element.text)>> ELSE << >>)
            \o (IF pub_date_element.found THEN <<strip(pub_date_element.text)>>
                ELSE << >>)
    IN  Paper(IF title_element.found THEN strip(title_element.text)
              ELSE <<"No title available">>,
              IF author_elements # << >> THEN join(<<", ">>, strip_all(author_elements))
              ELSE <<"No authors available">>,
              IF abstract_element.found THEN strip(abstract_element.text)
              ELSE <<"No abstract available">>,
              IF pub_info # << >> THEN join(<<" | ">>, pub_info)
              ELSE <<"Publication info not available">>,
              IF title_element.found
              THEN absolute_link("https://www.sciencedirect.com", title_element)
              ELSE << >>,
              <<"ScienceDirect">>)

\* the retry taken on an access denial as well
unsupported_browser_or_denied(response) ==
    response.unsupported \/ response.status = 403

\* 'unsupported_browser' in response.url
unsupported_browser(response) == response.unsupported

\* from response.raise_for_status() to the return
science_direct_parse(max_results, response, log) ==
    IF raises_for_status(response) THEN Returned(<< >>, log)
    ELSE LET paper_entries == Take(response.entries, max_results)
             papers == [i \in 1..Len(paper_entries) |->
                           science_direct_paper(paper_entries[i])]
         IN  Returned(Take(papers, max_results), log)

search_science_direct(max_results, script) ==
    LET first == script[1]
        log1 == <<Request(Chrome114, 0, first)>>
    IN  IF first.kind = "neterr" THEN Returned(<< >>, log1)
        ELSE IF unsupported_browser(first)
        THEN LET second == script[2]
                 log2 == Append(log1, Request(Safari16, 0, second))
             IN  IF second.kind = "neterr" THEN Returned(<< >>, log2)
                 ELSE IF unsupported_browser(second) THEN Returned(<< >>, log2)
                 ELSE science_direct_parse(max_results, second, log2)
        ELSE science_direct_parse(max_results, first, log1)

(***************************************************************************)
(* search_google_scholar_with_serpapi                                      *)
(***************************************************************************)
papers_per_page == 10

\* One member of organic_results: a key is there (Element) or not (NoElement);
\* total is inline_links.cited_by.total, 0 when any key on the way is missing.
ResultFull ==
    [title |-> Element(<<"T1">>), link |-> Element(<<"http://x/1">>),
     summary |-> Element(<<"Ann, Bob - 2020">>), snippet |-> Element(<<"A1">>),
     total |-> 7]

ResultBare ==
    [title |-> NoElement, link |-> NoElement, summary |-> NoElement,
     snippet |-> NoElement, total |-> 0]

Results == {ResultFull, ResultBare}

\* a page as SerpAPI usually sends it: papers_per_page results
FullPage == [i \in 1..papers_per_page |-> IF i = 1 THEN ResultBare ELSE ResultFull]

ResultLists == ListsUpTo(Results, MaxItems) \cup {FullPage}

\* the body of a SerpAPI response: not JSON, an error object, or a result page
\* (a page without organic_results reads as an empty list)
BadJson == [valid |-> FALSE]
ErrorObject == [valid |-> TRUE, error |-> TRUE, organic_results |-> << >>]
ResultPage(organic_results) ==
    [valid |-> TRUE, error |-> FALSE, organic_results |-> organic_results]

ApiResponse(status, body) == [kind |-> "http", status |-> status, body |-> body]

ApiResponses ==
    {NetError, ApiResponse(401, BadJson), ApiResponse(500, BadJson),
     ApiResponse(200, BadJson), ApiResponse(200, ErrorObject)}
        \cup {ApiResponse(200, ResultPage(l)) : l \in ResultLists}

\* dict.get(key, default)
get(element, default) == IF element.found THEN element.text ELSE default

\* records labelled with the name of the source, not of the method
serpapi_paper_plain_label(result) ==
    LET citation_count == result.total
    IN  Paper(get(result.title, <<"No title available">>),
              get(result.summary, <<"No author information">>),
              get(result.snippet, <<"No abstract available">>),
              IF citation_count # 0 THEN <<"Cited by ", ToString(citation_count)>>
              ELSE <<"Citations not available">>,
              get(result.link, << >>),
              <<"Google Scholar">>)

serpapi_paper(result) ==
    LET citation_count == result.total
    IN  Paper(get(result.title, <<"No title available">>),
              get(result.summary, <<"No author information">>),
              get(result.snippet, <<"No abstract available">>),
              IF citation_count # 0 THEN <<"Cited by ", ToString(citation_count)>>
              ELSE <<"Citations not available">>,
              get(result.link, << >>),
              <<"Google Scholar via SerpAPI">>)

\* the inner `for result in organic_results`: append one by one, stop as soon
\* as num_results papers are there
RECURSIVE serpapi_append(_, _, _)
serpapi_append(all_papers, organic_results, num_results) ==
    IF organic_results = << >> THEN all_papers
    ELSE LET added == Append(all_papers, serpapi_paper(Head(organic_results)))
         IN  IF Len(added) >= num_results THEN added
             ELSE serpapi_append(added, Tail(organic_results), num_results)

\* a failed page request that drops what the earlier pages brought
serpapi_stop_empty(all_papers, num_results) == << >>

\* a failed page request: `break`, then `return all_papers[:num_results]`
serpapi_stop(all_papers, num_results) == Take(all_papers, num_results)

\* pages counted from 1
start_index_from_one(page) == (page + 1) * papers_per_page

\* start_index = page * papers_per_page
start_index(page) == page * papers_per_page

\* the body of `for page in range(num_pages)` and the return after the loop;
\* script[k] is what SerpAPI answers to the k-th page request
RECURSIVE serpapi_pages(_, _, _, _, _, _)
serpapi_pages(page, all_papers, log, num_results, num_pages, script) ==
    IF page >= num_pages THEN Returned(Take(all_papers, num_results), log)
    ELSE LET response == script[page + 1]
             sent == Append(log, Request(DefaultAgent, start_index(page), response))
             stop == Returned(serpapi_stop(all_papers, num_results), sent)
         IN  IF response.kind = "neterr" THEN stop
             ELSE IF response.status # 200 THEN stop
             ELSE IF ~response.body.valid THEN stop
             ELSE IF response.body.error THEN stop
             ELSE IF response.body.organic_results = << >>
             THEN Returned(Take(all_papers, num_results), sent)
             ELSE LET added == serpapi_append(all_papers, response.body.organic_results,
                                              num_results)
                  IN  IF Len(added) >= num_results
                      THEN Returned(Take(added, num_results), sent)
                      ELSE serpapi_pages(page + 1, added, sent, num_results, num_pages,
                                         script)

\* api_key: whether a key is passed.  Without one the function reads
\* os.environ, and the module never imports os.
search_google_scholar_with_serpapi(num_results, api_key, script) ==
    IF ~api_key THEN Raised("NameError", << >>)
    ELSE LET num_pages == (num_results + papers_per_page - 1) \div papers_per_page
         IN  serpapi_pages(0, << >>, << >>, num_results, num_pages, script)

(***************************************************************************)
(* try_scholarly_search                                                    *)
(***************************************************************************)
\* One publication of the scholarly library.
PubFull ==
    [title |-> Element(<<"T1">>), author |-> << <<"Ann">>, <<"Bob">> >>,
     abstract |-> Element(<<"A1">>), num_citations |-> 7,
     pub_url |-> Element(<<"http://x/1">>)]

PubBare ==
    [title |-> NoElement, author |-> << >>, abstract |-> NoElement,
     num_citations |-> 0, pub_url |-> NoElement]

\* what one next(search_query) does: a publication, StopIteration, or another
\* exception
Yield(publication) == [kind |-> "pub", publication |-> publication]
StopIteration == [kind |-> "stop"]
YieldError == [kind |-> "error"]

Yields == {Yield(PubFull), Yield(PubBare), StopIteration, YieldError}

scholarly_paper(publication) ==
    LET authors == publication.author
        citations == publication.num_citations
    IN  Paper(get(publication.title, <<"No title available">>),
              IF authors # << >> THEN join(<<", ">>, authors)
              ELSE <<"No author information">>,
              get(publication.abstract, <<"No abstract available">>),
              IF citations # 0 THEN <<"Cited by ", ToString(citations)>>
              ELSE <<"Citations not available">>,
              get(publication.pub_url, << >>),
              <<"Google Scholar via scholarly">>)

\* `for i in range(min(num_results, 100))`; an iterator with nothing left to
\* say raises StopIteration
RECURSIVE scholarly_loop(_, _, _, _, _)
scholarly_loop(k, list, log, limit, yields) ==
    IF k >= limit \/ yields = << >> THEN Returned(list, log)
    ELSE LET y == Head(yields)
             sent == Append(log, Request("scholarly", k, y))
         IN  IF y.kind = "stop" THEN Returned(list, sent)
             ELSE IF y.kind = "error"
             THEN scholarly_loop(k + 1, list, sent, limit, Tail(yields))
             ELSE scholarly_loop(k + 1, Append(list, scholarly_paper(y.publication)),
                                 sent, limit, Tail(yields))

\* library: whether scholarly can be imported, whether search_pubs succeeds,
\* and what the iterator it returns yields
try_scholarly_search(num_results, library) ==
    IF ~library.installed THEN Returned(<< >>, << >>)
    ELSE IF ~library.searches THEN Returned(<< >>, << >>)
    ELSE scholarly_loop(0, << >>, << >>, Min(num_results, 100), library.yields)

(***************************************************************************)
(* multi_method_search                                                     *)
(***************************************************************************)
\* one entry of the log of a multi_method_search call: the method invoked and
\* what it handed back
Method(name, handed_back) ==
    Request(name, 0, [kind |-> "method", result |-> handed_back])

\* a test that lets every result through to the next method
truthy_never(list) == FALSE

\* `if papers:`
truthy(list) == list # << >>

\* Method 3, and Method 2 before it.  The name search_semantic_scholar is
\* looked up when the call is made: it is bound to the later definition.
multi_method_fallback(num_results, log, library, response) ==
    LET second == try_scholarly_search(num_results, library)
        log2 == Append(log, Method("try_scholarly_search", second))
    IN  IF truthy(second.papers) THEN Returned(second.papers, log2)
        ELSE LET third == search_semantic_scholar(num_results, response)
             IN  Returned(third.papers,
                          Append(log2, Method("search_semantic_scholar", third)))

\* serpapi_key: whether a key is passed; script, library and response are
\* what SerpAPI, the scholarly library and Semantic Scholar would answer
multi_method_search(num_results, serpapi_key, script, library, response) ==
    IF serpapi_key
    THEN LET first == search_google_scholar_with_serpapi(num_results, TRUE, script)
             log1 == <<Method("search_google_scholar_with_serpapi", first)>>
         IN  IF truthy(first.papers) THEN Returned(first.papers, log1)
             ELSE multi_method_fallback(num_results, log1, library, response)
    ELSE multi_method_fallback(num_results, << >>, library, response)

\* What the three remotes can answer to a multi_method_search call: each
\* method fails, finds nothing, or finds something.
MethodApiResponses ==
    {NetError, ApiResponse(200, ResultPage(<< >>)),
     ApiResponse(200, ResultPage(<<ResultFull>>)), ApiResponse(200, ResultPage(FullPage))}

MethodLibraries ==
    {[installed |-> FALSE, searches |-> FALSE, yields |-> << >>]}
        \cup {[installed |-> TRUE, searches |-> TRUE, yields |-> y] :
                 y \in {<<StopIteration>>, <<YieldError>>, <<Yield(PubFull)>>,
                        <<Yield(PubBare), Yield(PubFull)>>}}

MethodPageResponses ==
    {NetError, HttpResponse(403, << >>), HttpResponse(200, << >>),
     HttpResponse(200, <<EntryFull>>), HttpResponse(200, <<EntryBare, EntryFull>>)}

(***************************************************************************)
(* State.                                                                  *)
(*                                                                         *)
(* call is the last direct call of an adapter, with what it handed back.   *)
(* The other variables are one browser session of main: session is         *)
(* st.session_state; search_button, search_query, sources, num_results, i  *)
(* and papers are the locals of the script run under way; returned logs    *)
(* the list each adapter call of the run returned; outcome and shown are   *)
(* what the last finished run left on the page.  The locals keep the       *)
(* values the last run ended with until the next run starts.               *)
(***************************************************************************)
VARIABLES call, session, pc, search_button, search_query, sources, num_results,
          i, papers, returned, filter_option, outcome, shown

run_vars == <<session, pc, search_button, search_query, sources, num_results, i,
              papers, returned, filter_option, outcome, shown>>
vars == <<call, session, pc, search_button, search_query, sources, num_results, i,
          papers, returned, filter_option, outcome, shown>>

NoCall == [adapter |-> "none"]

\* the options of the multiselect, in the order main lists them
SourceNames ==
    {"Google Scholar", "arXiv", "ResearchGate", "Semantic Scholar", "CORE",
     "SpringerLink", "ScienceDirect"}

NoDuplicates(l) == \A a, b \in 1..Len(l) : a # b => l[a] # l[b]

\* what the multiselect can hold: the chosen options in the order chosen
Selections == {l \in ListsUpTo(SourceNames, MaxSel) : NoDuplicates(l)}

\* what the text input can hold
Queries == {"", "machine learning", "climate change"}

\* a number input without min_value and max_value
NumInputs_unchecked == {0, 20, 101}

\* what the number input can hold: its min_value and its default
NumInputs == {5, 20}

SortOptions == {"Relevance", "Date (newest first)", "Citations (highest first)"}

FilterOptions == {"All papers", "Full text available only", "Recent (last 5 years)"}

\* What a site can answer during a run of main, which looks at no field of
\* a record but its link: result lists of every length up to MaxRunItems, in
\* which results with and without a link alternate, and a lone result
\* without a link.
RunLists(linked, unlinked) ==
    {[k \in 1..n |-> IF k % 2 = 1 THEN linked ELSE unlinked] : n \in 0..MaxRunItems}
        \cup {<<unlinked>>}

RunResponses(linked, unlinked) == PageResponses(RunLists(linked, unlinked))

\* num_results / max_results of a direct call
NumChoices == {1, 2, papers_per_page, papers_per_page + 1, 2 * papers_per_page + 1}

Init ==
    /\ call = NoCall
    /\ session = [search_performed |-> FALSE]
    /\ pc = "idle"
    /\ search_button = FALSE
    /\ search_query = ""
    /\ sources = << >>
    /\ num_results = 0
    /\ i = 0
    /\ papers = << >>
    /\ returned = << >>
    /\ filter_option = "All papers"
    /\ outcome = "none"
    /\ shown = << >>

(***************************************************************************)
(* Direct calls of the adapters: a behaviour of AdapterSpec is one call of *)
(* one adapter, with some num_results and some answers of the remote.      *)
(***************************************************************************)
Call(name, n, handed_back) ==
    [adapter |-> name, num_results |-> n, result |-> handed_back]

CallSerpApi ==
    /\ call = NoCall
    /\ \E n \in NumChoices, api_key \in BOOLEAN :
        \E script \in [1..((n + papers_per_page - 1) \div papers_per_page) -> ApiResponses] :
            /\ call' = [adapter |-> "search_google_scholar_with_serpapi",
                        num_results |-> n, api_key |-> api_key,
                        result |-> search_google_scholar_with_serpapi(n, api_key,
                                                                      script)]
            /\ UNCHANGED run_vars

CallScholarly ==
    /\ call = NoCall
    /\ \E n \in NumChoices, installed \in BOOLEAN, searches \in BOOLEAN :
        \E yields \in ListsUpTo(Yields, MaxItems) :
            /\ call' = Call("try_scholarly_search", n,
                   try_scholarly_search(n, [installed |-> installed,
                                            searches |-> searches, yields |-> yields]))
            /\ UNCHANGED run_vars

CallArxiv ==
    /\ call = NoCall
    /\ \E n \in NumChoices, response \in PageResponses(FeedLists) :
        /\ call' = Call("search_arxiv", n, search_arxiv(n, response))
        /\ UNCHANGED run_vars

CallResearchGate ==
    /\ call = NoCall
    /\ \E n \in NumChoices, script \in [1..max_retries -> PageResponses(EntryLists)] :
        /\ call' = Call("search_research_gate", n, search_research_gate(n, script))
        /\ UNCHANGED run_vars

CallSemanticScholar ==
    /\ call = NoCall
    /\ \E n \in NumChoices, response \in PageResponses(EntryLists) :
        /\ call' = Call("search_semantic_scholar", n, search_semantic_scholar(n, response))
        /\ UNCHANGED run_vars

CallCore ==
    /\ call = NoCall
    /\ \E n \in NumChoices, response \in PageResponses(EntryLists) :
        /\ call' = Call("search_core", n, search_core(n, response))
        /\ UNCHANGED run_vars

CallSpringer ==
    /\ call = NoCall
    /\ \E n \in NumChoices, response \in PageResponses(EntryLists) :
        /\ call' = Call("search_springer", n, search_springer(n, response))
        /\ UNCHANGED run_vars

CallScienceDirect ==
    /\ call = NoCall
    /\ \E n \in NumChoices :
        \E script \in [1..2 -> PageResponses(EntryLists) \cup UnsupportedResponses] :
            /\ call' = Call("search_science_direct", n, search_science_direct(n, script))
            /\ UNCHANGED run_vars

CallMultiMethod ==
    /\ call = NoCall
    /\ \E n \in {1, 2, papers_per_page + 1}, serpapi_key \in BOOLEAN,
          library \in MethodLibraries, response \in MethodPageResponses :
        \E script \in [1..((n + papers_per_page - 1) \div papers_per_page)
                           -> MethodApiResponses] :
            /\ call' = [adapter |-> "multi_method_search", num_results |-> n,
                        serpapi_key |-> serpapi_key,
                        result |-> multi_method_search(n, serpapi_key, script,
                                                       library, response)]
            /\ UNCHANGED run_vars

AdapterNext ==
    \/ CallSerpApi
    \/ CallScholarly
    \/ CallArxiv
    \/ CallResearchGate
    \/ CallSemanticScholar
    \/ CallCore
    \/ CallSpringer
    \/ CallScienceDirect
    \/ CallMultiMethod

AdapterSpec == Init /\ [][AdapterNext]_vars

(***************************************************************************)
(* main: one script run, from the widgets to the page.                     *)
(*                                                                         *)
(* A run starts when the page is idle: the user has pressed the button or  *)
(* changed a widget.  The widgets' values are the inputs of the run.       *)
(***************************************************************************)
\* A script run begins: the widgets are drawn and hand their values to the
\* locals search_query, sources, num_results and search_button; nothing of
\* the run before is left but st.session_state.
ReadWidgets ==
    /\ pc = "idle"
    /\ search_button' \in BOOLEAN
    /\ search_query' \in Queries
    /\ sources' \in Selections
    /\ num_results' \in NumInputs
    /\ pc' = "guard"
    /\ outcome' = "running"
    /\ i' = 0
    /\ papers' = << >>
    /\ returned' = << >>
    /\ filter_option' = "All papers"
    /\ shown' = << >>
    /\ UNCHANGED <<call, session>>

\* `if search_button or 'search_performed' in st.session_state` is false:
\* only header and footer are drawn
NoSearch ==
    /\ pc = "guard"
    /\ ~(search_button \/ session.search_performed)
    /\ pc' = "idle"
    /\ outcome' = "none"
    /\ UNCHANGED <<call, session, search_button, search_query, sources, num_results,
                   i, papers, returned, filter_option, shown>>

\* the two early returns: empty query, empty selection
RejectSearch ==
    /\ pc = "guard"
    /\ search_button \/ session.search_performed
    /\ search_query = "" \/ sources = << >>
    /\ pc' = "idle"
    /\ outcome' = "warned"
    /\ UNCHANGED <<call, session, search_button, search_query, sources, num_results,
                   i, papers, returned, filter_option, shown>>

\* a result list that starts with a record left over from an earlier run
papers_left_over ==
    <<Paper(<<"T0">>, <<"Ann">>, <<"A0">>, <<"Cited by 1">>, <<"http://x/0">>,
            <<"arXiv">>)>>

\* `papers = []`
papers_new == << >>

\* the parameters stored on every run that passes the guards
stores_always(button) == TRUE

\* `if search_button:`, the branch that writes st.session_state
stores(button) == button

\* the button is pressed and the search goes ahead: store the parameters,
\* `papers = []`
StartSearch ==
    /\ pc = "guard"
    /\ search_button \/ session.search_performed
    /\ search_query # "" /\ sources # << >>
    /\ stores(search_button)
    /\ session' = [search_performed |-> TRUE, search_query |-> search_query,
                   sources |-> sources, num_results |-> num_results]
    /\ pc' = "dispatch"
    /\ papers' = papers_new
    /\ UNCHANGED <<call, search_button, search_query, sources, num_results, i,
                   returned, filter_option, outcome, shown>>

\* a rerun that goes on with what the widgets hold
widget_value(key) ==
    CASE key = "search_query" -> search_query
      [] key = "sources" -> sources
      [] key = "num_results" -> num_results

\* st.session_state[key]
session_state(key) == session[key]

\* a rerun without the button after a search was performed, the widgets
\* holding some query and some selection: the locals take the stored
\* parameters, `papers = []`
RepeatSearch ==
    /\ pc = "guard"
    /\ session.search_performed
    /\ search_query # "" /\ sources # << >>
    /\ ~stores(search_button)
    /\ search_query' = session_state("search_query")
    /\ sources' = session_state("sources")
    /\ num_results' = session_state("num_results")
    /\ pc' = "dispatch"
    /\ papers' = papers_new
    /\ UNCHANGED <<call, session, search_button, i, returned, filter_option, outcome,
                   shown>>

\* whether an answer is an error: an exception, an error status, or the
\* unsupported-browser page
is_error(response) ==
    response.kind = "neterr" \/ response.status >= 400 \/ response.unsupported

\* whether a call of an adapter failed: a request raised or got an error
\* status that is not retried, or every request it made got an error
failed(result) ==
    LET log == result.requests
    IN  \/ \E k \in 1..Len(log) :
              \/ log[k].response.kind = "neterr"
              \/ log[k].response.status >= 400 /\ log[k].response.status # 403
        \/ \A k \in 1..Len(log) : is_error(log[k].response)

\* one entry of returned: the source called and what its adapter handed back
Outcome(name, result) ==
    [source |-> name, failed |-> failed(result), papers |-> result.papers]

\* the new records put in front
extend_in_front(list, more) == more \o list

\* papers.extend(more)
extend(list, more) == list \o more

\* `for i, source in enumerate(sources)`: the source the loop is at
AtSource(name) == pc = "dispatch" /\ i < Len(sources) /\ sources[i + 1] = name

\* main calls search_google_scholar, a name the module never defines
SearchGoogleScholar ==
    /\ AtSource("Google Scholar")
    /\ pc' = "idle"
    /\ outcome' = "NameError"
    /\ UNCHANGED <<call, session, search_button, search_query, sources, num_results,
                   i, papers, returned, filter_option, shown>>

SearchArxiv ==
    /\ AtSource("arXiv")
    /\ \E response \in RunResponses(FeedFull, FeedBare) :
        LET result == search_arxiv(num_results, response)
        IN  /\ papers' = extend(papers, result.papers)
            /\ returned' = Append(returned, Outcome(sources[i + 1], result))
    /\ i' = i + 1
    /\ UNCHANGED <<call, session, pc, search_button, search_query, sources, num_results,
                   filter_option, outcome, shown>>

SearchResearchGate ==
    /\ AtSource("ResearchGate")
    /\ \E script \in [1..max_retries -> RunResponses(EntryFull, EntryBare)] :
        LET result == search_research_gate(num_results, script)
        IN  /\ papers' = extend(papers, result.papers)
            /\ returned' = Append(returned, Outcome(sources[i + 1], result))
    /\ i' = i + 1
    /\ UNCHANGED <<call, session, pc, search_button, search_query, sources, num_results,
                   filter_option, outcome, shown>>

SearchSemanticScholar ==
    /\ AtSource("Semantic Scholar")
    /\ \E response \in RunResponses(EntryFull, EntryBare) :
        LET result == search_semantic_scholar(num_results, response)
        IN  /\ papers' = extend(papers, result.papers)
            /\ returned' = Append(returned, Outcome(sources[i + 1], result))
    /\ i' = i + 1
    /\ UNCHANGED <<call, session, pc, search_button, search_query, sources, num_results,
                   filter_option, outcome, shown>>

SearchCore ==
    /\ AtSource("CORE")
    /\ \E response \in RunResponses(EntryFull, EntryBare) :
        LET result == search_core(num_results, response)
        IN  /\ papers' = extend(papers, result.papers)
            /\ returned' = Append(returned, Outcome(sources[i + 1], result))
    /\ i' = i + 1
    /\ UNCHANGED <<call, session, pc, search_button, search_query, sources, num_results,
                   filter_option, outcome, shown>>

SearchSpringer ==
    /\ AtSource("SpringerLink")
    /\ \E response \in RunResponses(EntryFull, EntryBare) :
        LET result == search_springer(num_results, response)
        IN  /\ papers' = extend(papers, result.papers)
            /\ returned' = Append(returned, Outcome(sources[i + 1], result))
    /\ i' = i + 1
    /\ UNCHANGED <<call, session, pc, search_button, search_query, sources, num_results,
                   filter_option, outcome, shown>>

SearchScienceDirect ==
    /\ AtSource("ScienceDirect")
    /\ \E script \in [1..2 -> RunResponses(EntryFull, EntryBare) \cup UnsupportedResponses] :
        LET result == search_science_direct(num_results, script)
        IN  /\ papers' = extend(papers, result.papers)
            /\ returned' = Append(returned, Outcome(sources[i + 1], result))
    /\ i' = i + 1
    /\ UNCHANGED <<call, session, pc, search_button, search_query, sources, num_results,
                   filter_option, outcome, shown>>

\* [paper for paper in papers if paper['link']]
with_link(list) == SelectSeq(list, LAMBDA paper : paper.link # << >>)

\* the `if papers:` block down to the first use of df['source']: a DataFrame
\* built from an empty list has no 'source' column
Display ==
    /\ pc = "dispatch"
    /\ i = Len(sources)
    /\ \E sort_option \in SortOptions, selected \in FilterOptions :
        /\ filter_option' = selected
        /\ IF papers # << >>
           THEN LET filtered == IF selected = "Full text available only"
                                THEN with_link(papers) ELSE papers
                IN  IF filtered = << >>
                    THEN outcome' = "KeyError" /\ shown' = << >>
                    ELSE outcome' = "shown" /\ shown' = filtered
           ELSE outcome' = "empty" /\ shown' = << >>
    /\ pc' = "idle"
    /\ UNCHANGED <<call, session, search_button, search_query, sources, num_results,
                   i, papers, returned>>

Next ==
    \/ ReadWidgets
    \/ NoSearch
    \/ RejectSearch
    \/ StartSearch
    \/ RepeatSearch
    \/ SearchGoogleScholar
    \/ SearchArxiv
    \/ SearchResearchGate
    \/ SearchSemanticScholar
    \/ SearchCore
    \/ SearchSpringer
    \/ SearchScienceDirect
    \/ Display

Spec == Init /\ [][Next]_vars

(***************************************************************************)
(* Properties of a direct adapter call (AdapterSpec).                      *)
(***************************************************************************)
SingleRequestAdapters ==
    {"search_arxiv", "search_semantic_scholar", "search_core", "search_springer"}

SerpApi == "search_google_scholar_with_serpapi"

\* a request of the call raised: a timeout or a connection failure (for the
\* scholarly library, a failed fetch of one result)
TimedOut(request) == request.response.kind \in {"neterr", "error"}

\* a request of the call got an HTTP error status
ErrorStatus(request) ==
    request.response.kind = "http" /\ request.response.status >= 400

\* a request got a 200 response without the expected structure: a page with
\* no result block, a body that is not JSON or has no organic_results
Malformed(request) ==
    /\ request.response.kind = "http"
    /\ request.response.status = 200
    /\ IF call.adapter = SerpApi
       THEN \/ ~request.response.body.valid
            \/ request.response.body.error
            \/ request.response.body.organic_results = << >>
       ELSE request.response.entries = << >> /\ ~request.response.unsupported

\* the result items a request brought in, as far as the adapter reads them
ItemsOf(request) ==
    LET r == request.response
    IN  IF r.kind = "pub" THEN <<r.publication>>
        ELSE IF r.kind # "http" \/ r.status # 200 THEN << >>
        ELSE IF call.adapter = SerpApi
        THEN (IF r.body.valid /\ ~r.body.error THEN r.body.organic_results ELSE << >>)
        ELSE Take(r.entries, call.num_results)

RECURSIVE ItemsUpTo(_, _)
ItemsUpTo(log, k) == IF k = 0 THEN << >> ELSE ItemsUpTo(log, k - 1) \o ItemsOf(log[k])

\* what the adapter that was called makes of one result item
PaperOf(item) ==
    CASE call.adapter = SerpApi -> serpapi_paper(item)
      [] call.adapter = "try_scholarly_search" -> scholarly_paper(item)
      [] call.adapter = "search_arxiv" -> arxiv_paper(item)
      [] call.adapter = "search_research_gate" -> research_gate_paper(item)
      [] call.adapter = "search_semantic_scholar" -> semantic_scholar_paper(item)
      [] call.adapter = "search_core" -> core_paper(item)
      [] call.adapter = "search_springer" -> springer_paper(item)
      [] call.adapter = "search_science_direct" -> science_direct_paper(item)

\* the records of the pages that came in with the first k requests, cut to
\* num_results
AccumulatedUpTo(log, k) ==
    LET items == ItemsUpTo(log, k)
    IN  Take([j \in 1..Len(items) |-> PaperOf(items[j])], call.num_results)

\* C1: for every adapter, every maxResults and every sequence of responses of
\* the remote, one fetch returns at most maxResults records.
C1_AtMostMaxResults ==
    (call # NoCall /\ ~call.result.raised)
        => Len(call.result.papers) <= call.num_results

NoText == << >>

PaperFields == {"title", "authors", "abstract", "citations", "link", "source"}

\* a result item that carries none of the elements the adapters look for
Bare(item) == item \in {EntryBare, FeedBare, ResultBare, PubBare}

\* C7 as claimed: every record returned by every adapter has all six fields
\* present and set to a non-empty string, whatever the result item contains.
C7_AllFieldsNonEmpty ==
    call # NoCall
        => \A j \in 1..Len(call.result.papers) :
               LET paper == call.result.papers[j]
               IN  /\ DOMAIN paper = PaperFields
                   /\ \A f \in PaperFields : paper[f] # NoText

\* C7 as amended: every record returned by every adapter has all six fields
\* present and a non-empty source; for a result item that carries none of the
\* expected elements, title, authors, abstract and citations/meta are
\* non-empty fallback literals and link is the empty string.
C7_FieldsPresent ==
    call # NoCall
        => LET got == call.result.papers
               items == ItemsUpTo(call.result.requests, Len(call.result.requests))
           IN  \A j \in 1..Len(got) :
                   /\ DOMAIN got[j] = PaperFields
                   /\ got[j].source # NoText
                   /\ (j <= Len(items) /\ Bare(items[j]))
                          => /\ got[j].title # NoText
                             /\ got[j].authors # NoText
                             /\ got[j].abstract # NoText
                             /\ got[j].citations # NoText
                             /\ got[j].link = NoText

\* an adapter returned the record of a result block without any element
C7_Witness ==
    /\ call # NoCall
    /\ call.adapter = "search_core"
    /\ Len(call.result.papers) = 2
    /\ Bare(ItemsOf(call.result.requests[1])[2])
    /\ call.result.papers[2].link = NoText
    /\ call.result.papers[2].title = <<"No title available">>

ScienceDirect == "search_science_direct"

\* C8 as claimed: on a 403 response the ScienceDirect adapter switches to
\* another client-identity string and retries, up to 3 attempts, before it
\* returns an empty sequence.
C8_RetriesOn403 ==
    (call # NoCall /\ call.adapter = ScienceDirect)
        => LET log == call.result.requests
           IN  /\ Len(log) <= 3
               /\ \A k \in 1..Len(log) :
                      (k < 3 /\ ErrorStatus(log[k]) /\ log[k].response.status = 403)
                          => (k < Len(log) /\ log[k + 1].agent # log[k].agent)

\* C8 as amended: the ScienceDirect adapter retries only when the response's
\* URL is the unsupported_browser page: it then switches to one other
\* User-Agent and makes one more request, at most 2 requests a call, and
\* returns an empty sequence if the second response is that page too; a 403
\* response that is not that page is not retried and gives an empty sequence.
C8_RetriesOnUnsupportedBrowser ==
    (call # NoCall /\ call.adapter = ScienceDirect)
        => LET log == call.result.requests
               got == call.result.papers
           IN  /\ Len(log) \in 1..2
               /\ Len(log) = 2 <=> (log[1].response.kind = "http"
                                     /\ log[1].response.unsupported)
               /\ Len(log) = 2 => log[2].agent # log[1].agent
               /\ (Len(log) = 2 /\ log[2].response.kind = "http"
                      /\ log[2].response.unsupported) => got = << >>
               /\ (ErrorStatus(log[1]) /\ log[1].response.status = 403
                      /\ ~log[1].response.unsupported)
                      => (Len(log) = 1 /\ got = << >>)

\* the adapter was sent to the unsupported_browser page, retried and got results
C8_Witness ==
    /\ call # NoCall
    /\ call.adapter = ScienceDirect
    /\ Len(call.result.requests) = 2
    /\ call.result.requests[1].response.unsupported
    /\ call.result.papers # << >>

ResearchGate == "search_research_gate"

Denied(request) == ErrorStatus(request) /\ request.response.status = 403

\* C9: one call of the ResearchGate adapter issues at most 3 requests and
\* ends without raising; each 403 response is followed by a change of the
\* User-Agent before the next attempt; when all 3 attempts get 403 the call
\* returns an empty sequence.
C9_ResearchGateRetries ==
    (call # NoCall /\ call.adapter = ResearchGate)
        => LET log == call.result.requests
           IN  /\ Len(log) <= 3
               /\ ~call.result.raised
               /\ \A k \in 1..(Len(log) - 1) :
                      Denied(log[k]) => log[k + 1].agent # log[k].agent
               /\ (Len(log) = 3 /\ \A k \in 1..3 : Denied(log[k]))
                      => call.result.papers = << >>

\* all three attempts of a call were denied
C9_Witness ==
    /\ call # NoCall
    /\ call.adapter = ResearchGate
    /\ Len(call.result.requests) = 3
    /\ \A k \in 1..3 : Denied(call.result.requests[k])
    /\ call.result.papers = << >>

\* the number of results the first k page requests brought in
Brought(log, k) == Len(ItemsUpTo(log, k))

\* C10: the paginated adapter requests pages at start offsets 0, 10, 20, ...
\* in increasing order, accumulates their records in page order, never
\* requests more than ceil(maxResults/10) pages, and issues no page request
\* once the accumulated count has reached maxResults or a page has returned
\* no results.
C10_Pagination ==
    (call # NoCall /\ call.adapter = SerpApi /\ ~call.result.raised)
        => LET log == call.result.requests
               n == call.num_results
           IN  /\ Len(log) * 10 < n + 10
               /\ \A k \in 1..Len(log) : log[k].start = (k - 1) * 10
               /\ \A k \in 1..(Len(log) - 1) :
                      /\ ItemsOf(log[k]) # << >>
                      /\ Brought(log, k) < n
               /\ call.result.papers = AccumulatedUpTo(log, Len(log))

\* three pages were requested and the third completed the result
C10_Witness ==
    /\ call # NoCall
    /\ call.adapter = SerpApi
    /\ Len(call.result.requests) = 3
    /\ call.result.requests[3].start = 20
    /\ Len(call.result.papers) = call.num_results

\* the seven values of the source enumeration, as texts
SourceLabels == {<<name>> : name \in SourceNames}

Scholarly == "try_scholarly_search"

\* the label each adapter is to put on its records: for the six adapters main
\* dispatches to, the name of the source main selects them by
OwnLabel ==
    [search_arxiv |-> <<"arXiv">>,
     search_research_gate |-> <<"ResearchGate">>,
     search_semantic_scholar |-> <<"Semantic Scholar">>,
     search_core |-> <<"CORE">>,
     search_springer |-> <<"SpringerLink">>,
     search_science_direct |-> <<"ScienceDirect">>,
     search_google_scholar_with_serpapi |-> <<"Google Scholar via SerpAPI">>,
     try_scholarly_search |-> <<"Google Scholar via scholarly">>]

\* C11 as claimed: every record an adapter returns carries a source that is
\* one of the seven values of the source enumeration.
C11_SourceInEnumeration ==
    (call # NoCall /\ call.adapter \in DOMAIN OwnLabel)
        => \A k \in 1..Len(call.result.papers) :
               call.result.papers[k].source \in SourceLabels

\* C11 as amended: every record an adapter returns carries that adapter's
\* own fixed label; for the six adapters main dispatches to it is the name of
\* the source they are selected by, one of the enumeration's values; the
\* labels of the two Google Scholar adapters, 'Google Scholar via SerpAPI' and
\* 'Google Scholar via scholarly', are not values of the enumeration.
C11_OwnSourceLabel ==
    (call # NoCall /\ call.adapter \in DOMAIN OwnLabel)
        => \A k \in 1..Len(call.result.papers) :
               LET source == call.result.papers[k].source
               IN  /\ source = OwnLabel[call.adapter]
                   /\ (source \in SourceLabels) = (call.adapter \notin {SerpApi, Scholarly})

\* the paginated adapter returned records
C11_Witness ==
    /\ call # NoCall
    /\ call.adapter = SerpApi
    /\ call.result.papers # << >>
    /\ call.result.papers[1].source = <<"Google Scholar via SerpAPI">>

MultiMethod == "multi_method_search"

\* the methods of multi_method_search in the order it is to try them
MethodOrder(serpapi_key) ==
    IF serpapi_key THEN <<SerpApi, Scholarly, "search_semantic_scholar">>
    ELSE <<Scholarly, "search_semantic_scholar">>

\* what the k-th method invoked by the call returned
MethodResult(k) == call.result.requests[k].response.result.papers

\* C12: multi_method_search tries its methods in the fixed order SerpAPI
\* (only when a key is given), scholarly, Semantic Scholar, and returns the
\* result of the first method whose result is non-empty; no later method is
\* invoked after an earlier one returned a non-empty list, and the result is
\* empty only if every method tried returned empty.
C12_FirstNonEmptyMethod ==
    (call # NoCall /\ call.adapter = MultiMethod)
        => LET log == call.result.requests
               order == MethodOrder(call.serpapi_key)
               m == Len(log)
           IN  /\ ~call.result.raised
               /\ m >= 1 /\ m <= Len(order)
               /\ \A k \in 1..m : log[k].agent = order[k]
               /\ \A k \in 1..(m - 1) : MethodResult(k) = << >>
               /\ m < Len(order) => MethodResult(m) # << >>
               /\ call.result.papers = MethodResult(m)

\* with a key given, SerpAPI found nothing, scholarly found something and
\* Semantic Scholar was not asked
C12_Witness ==
    /\ call # NoCall
    /\ call.adapter = MultiMethod
    /\ call.serpapi_key
    /\ Len(call.result.requests) = 2
    /\ call.result.requests[1].response.result.requests # << >>
    /\ call.result.papers # << >>
    /\ call.result.papers[1].source = <<"Google Scholar via scholarly">>

\* C13: search_google_scholar_with_serpapi called with no api_key (and no
\* SERPAPI_KEY in the environment) reports the missing key and returns an
\* empty list, issuing no request and raising no error.
C13_MissingKeyReported ==
    (call # NoCall /\ call.adapter = SerpApi /\ ~call.api_key)
        => /\ ~call.result.raised
           /\ call.result.papers = << >>
           /\ call.result.requests = << >>

\* a text without the whitespace around it
Trimmed(text) ==
    LET solid == {j \in 1..Len(text) : text[j] # WS}
    IN  IF solid = {} THEN << >>
        ELSE SubSeq(text, CHOOSE j \in solid : \A h \in solid : j <= h,
                    CHOOSE j \in solid : \A h \in solid : j >= h)

\* names with ", " between them
RECURSIVE CommaJoined(_)
CommaJoined(names) ==
    IF names = << >> THEN << >>
    ELSE IF Len(names) = 1 THEN names[1]
    ELSE CommaJoined(SubSeq(names, 1, Len(names) - 1)) \o <<", ">> \o names[Len(names)]

\* the authors a result item carries, in the order the source gives them:
\* SerpAPI and CORE give one text for all authors, the other sources one
\* element per author
AuthorNames(item) ==
    CASE call.adapter = SerpApi ->
             IF item.summary.found THEN <<item.summary.text>> ELSE << >>
      [] call.adapter = Scholarly -> item.author
      [] call.adapter = "search_arxiv" ->
             LET named == SelectSeq(item.authors, LAMBDA a : a.found)
             IN  [j \in 1..Len(named) |-> named[j].text]
      [] call.adapter = "search_core" ->
             IF item.author_element.found THEN <<Trimmed(item.author_element.text)>>
             ELSE << >>
      [] call.adapter = "search_semantic_scholar" -> item.author_elements
      [] OTHER -> [j \in 1..Len(item.author_elements) |->
                      Trimmed(item.author_elements[j])]

\* the result item the k-th record of the call was made from
ItemOf(k) == ItemsUpTo(call.result.requests, Len(call.result.requests))[k]

\* C14 as claimed: for every adapter, a record made from an item without
\* author information has the authors field "No author information", and a
\* record made from an item with several authors has their names joined by
\* commas in source order.
C14_AuthorsFallback ==
    (call # NoCall /\ call.adapter \in DOMAIN OwnLabel)
        => \A k \in 1..Len(call.result.papers) :
               LET names == AuthorNames(ItemOf(k))
                   authors == call.result.papers[k].authors
               IN  /\ names = << >> => authors = <<"No author information">>
                   /\ Len(names) >= 2 => authors = CommaJoined(names)

\* C14 as amended: a record made from an item without author information has
\* the authors field "No author information" in the two Google Scholar
\* adapters and "No authors available" in the six other adapters; a record
\* made from an item with several authors has their names, trimmed of
\* surrounding whitespace except in arXiv, Semantic Scholar and scholarly,
\* joined by ", " in source order.
C14_AuthorsFallbackPerAdapter ==
    (call # NoCall /\ call.adapter \in DOMAIN OwnLabel)
        => \A k \in 1..Len(call.result.papers) :
               LET names == AuthorNames(ItemOf(k))
                   authors == call.result.papers[k].authors
               IN  /\ names = << >>
                          => authors = IF call.adapter \in {SerpApi, Scholarly}
                                       THEN <<"No author information">>
                                       ELSE <<"No authors available">>
                   /\ Len(names) >= 2 => authors = CommaJoined(names)

\* a page of SpringerLink brought an item with two authors and an item with
\* none
C14_Witness ==
    /\ call # NoCall
    /\ call.adapter = "search_springer"
    /\ Len(call.result.papers) = 2
    /\ Len(AuthorNames(ItemOf(1))) = 2
    /\ call.result.papers[1].authors = <<"Ann", ", ", "Bob">>
    /\ AuthorNames(ItemOf(2)) = << >>
    /\ call.result.papers[2].authors = <<"No authors available">>

\* C16: the ResearchGate adapter issues a further request only in response
\* to a 403: once a non-403 response has been received and parsed, no more
\* requests are made in that call, and each result item of that response (up
\* to maxResults) appears exactly once in the returned sequence.
C16_RequestOnlyAfter403 ==
    (call # NoCall /\ call.adapter = ResearchGate)
        => LET log == call.result.requests
               last == log[Len(log)]
           IN  /\ \A k \in 1..(Len(log) - 1) : Denied(log[k])
               /\ (last.response.kind = "http" /\ last.response.status = 200)
                      => call.result.papers =
                             [j \in 1..Len(ItemsOf(last)) |-> PaperOf(ItemsOf(last)[j])]

\* C21: the final fallback of multi_method_search queries the Semantic
\* Scholar API implementation, the one that sends a plain requests.get and
\* labels its records 'Semantic Scholar API', not the HTML-scrape
\* implementation of the same name.
C21_FallbackIsApi ==
    (call # NoCall /\ call.adapter = MultiMethod)
        => LET log == call.result.requests
               last == log[Len(log)]
           IN  last.agent = "search_semantic_scholar"
                   => /\ \A k \in 1..Len(last.response.result.requests) :
                             last.response.result.requests[k].agent = DefaultAgent
                      /\ \A k \in 1..Len(call.result.papers) :
                             call.result.papers[k].source = <<"Semantic Scholar API">>

(***************************************************************************)
(* Properties of the runs of main (Spec).                                  *)
(***************************************************************************)
\* a run that went into the dispatch loop has ended
RunEnded == pc = "idle" /\ outcome \in {"shown", "empty", "KeyError", "NameError"}

\* the dispatch loop has gone through all selected sources
LoopCompleted == i = Len(sources)

\* C2: the Aggregator never raises: for every non-empty query and non-empty
\* selection of the seven offered sources, the dispatch loop runs to
\* completion over all selected sources and produces an aggregated list.
C2_DispatchCompletes == RunEnded => (LoopCompleted /\ outcome # "NameError")

\* the call for position a of the selection failed: its adapter failed, or
\* the call itself raised
FailedAt(a) ==
    \/ a <= Len(returned) /\ returned[a].failed
    \/ a = i + 1 /\ outcome = "NameError"

SucceededAt(b) == b <= Len(returned) /\ ~returned[b].failed

\* C3: for any two selected sources A and B, if A's adapter fails and B's
\* succeeds, the aggregated result contains exactly B's records, whether A
\* comes before or after B in the selection.
C3_FailureIsolation ==
    (RunEnded /\ Len(sources) = 2)
        => \A a, b \in 1..2 :
               (a # b /\ FailedAt(a) /\ SucceededAt(b))
                   => (LoopCompleted /\ papers = returned[b].papers)

RECURSIVE Concatenation(_)
Concatenation(lists) ==
    IF lists = << >> THEN << >> ELSE Head(lists) \o Concatenation(Tail(lists))

\* C4: before any filtering, the aggregated list is the concatenation of the
\* selected adapters' returned sequences in the order the sources were
\* selected: nothing is dropped, deduplicated, reordered or truncated.
C4_Concatenation ==
    (pc = "dispatch" \/ RunEnded)
        => /\ Len(returned) = i
           /\ \A k \in 1..i : returned[k].source = sources[k]
           /\ papers = Concatenation([k \in 1..i |-> returned[k].papers])

\* a run over two sources that both returned records has completed its loop
C4_Witness ==
    /\ RunEnded
    /\ Len(sources) = 2
    /\ LoopCompleted
    /\ Len(returned) = 2
    /\ returned[1].papers # << >>
    /\ returned[2].papers # << >>
    /\ returned[1].papers # returned[2].papers

\* C11, the aggregated list: every record main has gathered carries the name
\* of one of the sources selected for the run.
C11_AggregatedFromSelected ==
    \A k \in 1..Len(papers) :
        \E a \in 1..Len(sources) : papers[k].source = <<sources[a]>>

\* an adapter is about to be invoked or has been invoked in the run under way
AdapterInvoked == pc = "dispatch" \/ returned # << >> \/ outcome = "NameError"

\* C15: every adapter invocation made by main, on a button-press run and on
\* every later rerun driven by stored session state, passes a non-empty query
\* and a maxResults within [1, 100]; no adapter is invoked when the query is
\* empty or no source is selected.
C15_ValidAdapterInputs ==
    /\ AdapterInvoked
           => (search_query # "" /\ sources # << >> /\ num_results \in 1..100)
    /\ session.search_performed
           => /\ session.search_query # ""
              /\ session.sources # << >>
              /\ session.num_results \in 1..100

\* a rerun without the button has called an adapter
C15_Witness ==
    /\ ~search_button
    /\ returned # << >>
    /\ search_query # ""
    /\ num_results = 5

\* the number of records in the lists the adapters of the run returned
RECURSIVE ReturnedCount(_)
ReturnedCount(a) == IF a = 0 THEN 0 ELSE ReturnedCount(a - 1) + Len(returned[a].papers)

\* C17: each search run starts from an empty result list: after any sequence
\* of searches and reruns, the aggregated list of the current run contains
\* only records returned by adapters invoked in that run, never records of
\* an earlier run.
C17_RunStartsEmpty ==
    /\ (pc = "dispatch" /\ i = 0) => papers = << >>
    /\ Len(papers) = ReturnedCount(Len(returned))
    /\ \A k \in 1..Len(papers) :
           \E a \in 1..Len(returned) :
               \E j \in 1..Len(returned[a].papers) : returned[a].papers[j] = papers[k]

\* a rerun after an earlier search has gone through the loop and gathered
\* the records its own adapter calls returned
C17_Witness ==
    /\ session.search_performed
    /\ ~search_button
    /\ pc = "idle"
    /\ outcome = "shown"
    /\ Len(returned) = 2
    /\ Len(papers) = Len(returned[1].papers) + Len(returned[2].papers)
    /\ Len(papers) >= 3

\* the script run under way is a rerun without the button, with a search
\* performed before and the widgets holding a query and a selection
RerunPassesGuards ==
    /\ pc = "guard"
    /\ ~search_button
    /\ session.search_performed
    /\ search_query # "" /\ sources # << >>

\* the locals of the run hold the stored parameters
RunsStoredSearch ==
    /\ search_query = session.search_query
    /\ sources = session.sources
    /\ num_results = session.num_results

\* C18: once a search has been performed, the search_performed flag is never
\* cleared, and every later rerun in which the button is not pressed (and
\* the current query and source widgets are non-empty) re-executes the whole
\* search with the stored query, sources and result count, not with the
\* values currently in the widgets.
C18_RerunUsesStored ==
    [][/\ session.search_performed => session'.search_performed
       /\ RerunPassesGuards
              => (pc' = "dispatch" /\ i' = 0 /\ papers' = << >> /\ RunsStoredSearch')
       /\ (~search_button' /\ (pc' = "dispatch" \/ returned' # << >>))
              => RunsStoredSearch']_vars

\* a rerun without the button is in its dispatch loop, past its first source
C18_Witness ==
    /\ ~search_button
    /\ pc = "dispatch"
    /\ i = 1
    /\ Len(sources) = 2
    /\ RunsStoredSearch

\* C19: the stored search parameters (search_query, sources, num_results,
\* search_performed) change only on a run where the button is pressed with a
\* non-empty query and a non-empty source selection; a rerun without a
\* button press, and a button press rejected for an empty query or empty
\* selection, leave all four unchanged.
C19_StoredOnlyOnAcceptedPress ==
    [][/\ session' # session
              => /\ pc = "guard" /\ search_button
                 /\ search_query # "" /\ sources # << >>
                 /\ session' = [search_performed |-> TRUE,
                                search_query |-> search_query,
                                sources |-> sources, num_results |-> num_results]
       /\ (pc = "guard" /\ (~search_button \/ search_query = "" \/ sources = << >>))
              => session' = session]_vars

\* after a search was performed, a button press with an empty query was
\* rejected and the stored query is still there
C19_Witness ==
    /\ search_button
    /\ pc = "idle"
    /\ outcome = "warned"
    /\ search_query = ""
    /\ session.search_performed
    /\ session.search_query # ""

\* the run under way went through the loop and came to the page
PageDrawn ==
    pc = "idle" /\ i = Len(sources) /\ outcome \in {"shown", "empty", "KeyError"}

\* the records of a list that have a link, in the order of the list
RECURSIVE Linked(_)
Linked(list) ==
    IF list = << >> THEN << >>
    ELSE IF Head(list).link # << >> THEN <<Head(list)>> \o Linked(Tail(list))
    ELSE Linked(Tail(list))

\* C20: with the filter "Full text available only" the displayed and exported
\* list is exactly the subsequence of the aggregated list whose link is
\* non-empty, in unchanged order; with every other filter option and every
\* sort option the list is exactly the aggregated list, unchanged, and no
\* record's fields are modified in either case.
C20_FilterKeepsLinked ==
    PageDrawn
        => /\ outcome # "KeyError"
           /\ shown = IF filter_option = "Full text available only"
                      THEN Linked(papers) ELSE papers

\* C20 on the runs that do not end in the KeyError: the list on the page is
\* the filtered aggregated list.
C20_ShownWhenDrawn ==
    (PageDrawn /\ outcome # "KeyError")
        => shown = IF filter_option = "Full text available only"
                   THEN Linked(papers) ELSE papers

====
